---- MODULE Spec2Model ----
(***************************************************************************)
(* Translation dispatch-and-cache core of the translator application:      *)
(* core/caching.py (ModelCache), core/translator.py (AITranslator),        *)
(* core/offline_translator.py (OfflineTranslator) and the frontends that   *)
(* call them.                                                              *)
(*                                                                         *)
(* Conventions                                                             *)
(*   - a text is a sequence of characters (one-character strings, or a    *)
(*     name such as "cjk" for a character outside ASCII);                  *)
(*   - Python's None is NONE where a text is expected and NoneVal where    *)
(*     a dict is expected;                                                 *)
(*   - a confidence is in hundredths (0.95 is 95);                         *)
(*   - the 'time' field of a result (elapsed wall-clock seconds) is not    *)
(*     modelled.                                                           *)
(***************************************************************************)
EXTENDS Integers, Sequences, FiniteSets, TLC

VARIABLES
    redis_client,   \* ModelCache.redis_client: TRUE when connected, FALSE when None
    redis,          \* contents of the fast tier: key -> [val, exp]
    disk,           \* ModelCache.disk_cache: key -> [val, exp]
    now,            \* wall clock, in seconds
    hashseed,       \* the process's string-hash seed
    translator,     \* the translator object the process constructed
    call,           \* the smart_translate call in progress (pc = "idle" when none)
    other,          \* a second call in progress, in a thread that is not running now
    last,           \* summary of the operation completed most recently
    ops,            \* number of operations started so far
    model_cache,    \* ModelCache.model_cache: model name -> handle
    shared,         \* SharedModelCache's class attributes and the threads calling it
    limiter,        \* api_server.request_counts and the request handlers in progress
    guest_sessions  \* rows of the guest_sessions table: device_id -> row

vars == <<redis_client, redis, disk, now, hashseed, translator, call, other, last, ops,
          model_cache, shared, limiter, guest_sessions>>

\* the state outside the translation cache and its dispatchers
aux == <<model_cache, shared, limiter, guest_sessions>>

\* the state of the translation cache and its dispatchers, the summary aside
core == <<redis_client, redis, disk, now, hashseed, translator, call, other, ops>>

----------------------------------------------------------------------------
(* Bounds of the model *)

MaxOps == 2
MaxTicks == 2

\* ... and of one entry's longer run: cache operations, and clock steps
MaxCacheOps == 3
MaxCacheTicks == 4

----------------------------------------------------------------------------
(* Values *)

\* None where a text is expected, and where a language code or method name is
NONE == <<"<None>">>
NONE_STR == "<None>"
\* None where a dict is expected
NoneVal == [tag |-> "None"]
\* an exception raised by an external call
RAISE == <<"<raise>">>

\* Python truthiness of an optional text: None and '' are falsy
Truthy(s) == s # NONE /\ s # <<>>

\* a dispatcher testing 'is not None' where the code tests truthiness
Usable_NotNone(s) == s # NONE

\* the test the dispatchers make of a backend's answer: 'if ai_result:'
Usable(s) == Truthy(s)

DefaultTTL == 3600
PromoteTTL == 3600
MaxKeyLen == 200
HashMod == 1009

TickStep == DefaultTTL \div 2

----------------------------------------------------------------------------
(* Texts *)

T_Hello == <<"H","e","l","l","o"," ","w","o","r","l","d">>
T_Hi == <<"H","i">>
T_Blank == <<" ">>
T_Hola == <<"H","o","l","a">>
T_Bonjour == <<"B","o","n","j","o","u","r">>
T_Ciao == <<"C","i","a","o">>

CodePoint(c) ==
    CASE c = " " -> 32
      [] c = "," -> 44
      [] c = "!" -> 33
      [] c = "H" -> 72
      [] c = "d" -> 100
      [] c = "e" -> 101
      [] c = "i" -> 105
      [] c = "l" -> 108
      [] c = "o" -> 111
      [] c = "r" -> 114
      [] c = "w" -> 119
      [] c = "cjk" -> 20013
      [] c = "hira" -> 12354
      [] c = "kata" -> 12450
      [] c = "hangul" -> 54620
      [] c = "arabic" -> 1593
      [] c = "deva" -> 2361
      [] OTHER -> 63

IsSpace(c) == c = " "

RECURSIVE LStrip(_)
LStrip(t) == IF t # <<>> /\ IsSpace(Head(t)) THEN LStrip(Tail(t)) ELSE t

RECURSIVE RStrip(_)
RStrip(t) ==
    IF t # <<>> /\ IsSpace(t[Len(t)]) THEN RStrip(SubSeq(t, 1, Len(t) - 1)) ELSE t

\* str.strip()
Strip(t) == RStrip(LStrip(t))

----------------------------------------------------------------------------
(* ModelCache._make_key and the hash of the text *)

RECURSIVE PolyHash(_, _)
PolyHash(t, h) ==
    IF t = <<>> THEN h ELSE PolyHash(Tail(t), (h * 31 + CodePoint(Head(t))) % HashMod)

\* the string-hash seed of the one process modelled
Seeds == {0}

\* the seeds of processes started independently of each other: each draws its
\* own (PYTHONHASHSEED is not set by the program)
ProcessSeeds == {0, 1}

\* hash(text): a function of the text and of the seed the process drew at start
HashText(seed, t) == (PolyHash(t, 7) + seed * 101) % HashMod

RECURSIVE DecLen(_)
DecLen(n) == IF n < 10 THEN 1 ELSE 1 + DecLen(n \div 10)

\* len(":".join([source_lang, target_lang, str(h)]))
KeyStrLen(source_lang, target_lang, h) ==
    Len(source_lang) + 1 + Len(target_lang) + 1 + DecLen(h)

\* a key that leaves the target language out
make_key_NoTarget(prefix, source_lang, target_lang, h) ==
    <<prefix, <<source_lang, h>> >>

\* _make_key("trans", source_lang, target_lang, h): long keys are hashed
make_key(prefix, source_lang, target_lang, h) ==
    IF KeyStrLen(source_lang, target_lang, h) > MaxKeyLen
    THEN <<prefix, "md5", <<source_lang, target_lang, h>> >>
    ELSE <<prefix, <<source_lang, target_lang, h>> >>

TransKey(seed, text, source_lang, target_lang) ==
    make_key("trans", source_lang, target_lang, HashText(seed, text))

----------------------------------------------------------------------------
(* The two tiers *)

\* json.dumps / json.loads of a result dict
JsonDumps(r) == <<"json", r>>
JsonLoads(s) == s[2]

Live(store, key) == key \in DOMAIN store /\ now < store[key].exp

\* a tier that is handed no lifetime: the entry is gone as soon as written
Put_NoLifetime(store, key, val, ttl) ==
    [k \in DOMAIN store \cup {key} |->
        IF k = key THEN [val |-> val, exp |-> now] ELSE store[k]]

\* redis setex / diskcache set with expire
Put(store, key, val, ttl) ==
    [k \in DOMAIN store \cup {key} |->
        IF k = key THEN [val |-> val, exp |-> now + ttl] ELSE store[k]]

\* ModelCache with the disk write of cache_translation outside a try block
CaughtSites_NoDiskSet == {"redis.setex", "redis.get", "disk.get", "redis.promote"}

\* the exception handlers of ModelCache: the tier operations inside a try block
CaughtSites == {"redis.setex", "disk.set", "redis.get", "disk.get", "redis.promote"}

Faults == [rget : BOOLEAN, rset : BOOLEAN, dget : BOOLEAN, dset : BOOLEAN]
NoFaults == [rget |-> FALSE, rset |-> FALSE, dget |-> FALSE, dset |-> FALSE]

Acc(site, ok) == [site |-> site, ok |-> ok]

Uncaught(trace) ==
    \E i \in 1..Len(trace) : ~trace[i].ok /\ trace[i].site \notin CaughtSites

\* cache_translation without the 'return' that follows the Redis write
FallsToDisk_NoReturn(redisOk) == TRUE

\* cache_translation goes on to the disk tier unless the Redis write returned
FallsToDisk(redisOk) == ~redisOk

\* get_cached_translation with the promotion inside the outer try block only
AfterPromote_Unguarded(cached, promoteFailed) == IF promoteFailed THEN NoneVal ELSE cached

\* what get_cached_translation returns after a disk hit and its promotion
\* attempt: the inner try block swallows a failed promotion
AfterPromote(cached, promoteFailed) == cached

\* ModelCache.cache_translation: the state after the call and what it did
cache_translation(key, result, ttl, f) ==
    LET tryRedis == redis_client
        redisOk == tryRedis /\ ~f.rset
        t1 == IF tryRedis THEN <<Acc("redis.setex", redisOk)>> ELSE <<>>
        tryDisk == FallsToDisk(redisOk)
        diskOk == tryDisk /\ ~f.dset
        t2 == IF tryDisk THEN <<Acc("disk.set", diskOk)>> ELSE <<>>
    IN  [redis |-> IF redisOk THEN Put(redis, key, JsonDumps(result), ttl) ELSE redis,
         disk |-> IF diskOk THEN Put(disk, key, result, ttl) ELSE disk,
         ret |-> NoneVal,
         trace |-> t1 \o t2,
         raised |-> Uncaught(t1 \o t2)]

\* ModelCache.get_cached_translation
get_cached_translation(key, f) ==
    LET tryRedis == redis_client
        redisRead == tryRedis /\ ~f.rget
        redisHit == redisRead /\ Live(redis, key)
        t1 == IF tryRedis THEN <<Acc("redis.get", redisRead)>> ELSE <<>>
        tryDisk == ~redisHit
        diskRead == tryDisk /\ ~f.dget
        diskHit == diskRead /\ Live(disk, key)
        t2 == IF tryDisk THEN <<Acc("disk.get", diskRead)>> ELSE <<>>
        tryPromote == diskHit /\ redis_client
        promoteOk == tryPromote /\ ~f.rset
        t3 == IF tryPromote THEN <<Acc("redis.promote", promoteOk)>> ELSE <<>>
    IN  [redis |-> IF promoteOk
                   THEN Put(redis, key, JsonDumps(disk[key].val), PromoteTTL)
                   ELSE redis,
         disk |-> disk,
         ret |-> IF redisHit THEN JsonLoads(redis[key].val)
                 ELSE IF diskHit THEN AfterPromote(disk[key].val, tryPromote /\ ~promoteOk)
                 ELSE NoneVal,
         trace |-> t1 \o t2 \o t3,
         raised |-> Uncaught(t1 \o t2 \o t3)]

Empty == [k \in {} |-> NoneVal]

\* a clear that leaves the fast tier alone
clear_translations_DiskOnly(f) ==
    [redis |-> redis,
     disk |-> IF ~f.dset THEN Empty ELSE disk]

\* ModelCache.clear_translations; f.dset / f.rset stand for the clear raising
clear_translations(f) ==
    [redis |-> IF redis_client /\ ~f.rset THEN Empty ELSE redis,
     disk |-> IF ~f.dset THEN Empty ELSE disk]

----------------------------------------------------------------------------
(* AITranslator: language detection and input validation *)

supported_languages ==
    {"en", "es", "fr", "de", "it", "pt", "ru", "ja", "ko", "zh",
     "ar", "hi", "nl", "sv", "da", "no", "fi", "pl", "tr", "th"}

\* \w of the regular expression: letters, digits and the underscore
IsWord(c) == ~IsSpace(c) /\ c \notin {",", "!", "?", "."}

\* re.sub(r'[^\w\s]', ' ', text)
RECURSIVE SubPunct(_)
SubPunct(t) ==
    IF t = <<>> THEN <<>>
    ELSE <<IF IsWord(Head(t)) \/ IsSpace(Head(t)) THEN Head(t) ELSE " ">> \o SubPunct(Tail(t))

\* ' '.join(s.split()): runs of spaces become one space, none at the ends
RECURSIVE Collapse(_)
Collapse(t) ==
    IF t = <<>> THEN <<>>
    ELSE IF IsSpace(Head(t)) /\ (Len(t) = 1 \/ IsSpace(t[2])) THEN Collapse(Tail(t))
    ELSE <<Head(t)>> \o Collapse(Tail(t))

CleanText(t) == Collapse(LStrip(SubPunct(t)))

InRange(t, lo, hi) == \E i \in 1..Len(t) : lo <= CodePoint(t[i]) /\ CodePoint(t[i]) <= hi

\* a fallback that looks for kana before ideographs
UnicodeFallback_KanaFirst(t) ==
    IF InRange(t, 12352, 12447) \/ InRange(t, 12448, 12543) THEN <<"ja", 80>>
    ELSE IF InRange(t, 19968, 40959) THEN <<"zh", 80>>
    ELSE IF InRange(t, 44032, 55215) THEN <<"ko", 80>>
    ELSE IF InRange(t, 1536, 1791) THEN <<"ar", 80>>
    ELSE IF InRange(t, 2304, 2431) THEN <<"hi", 80>>
    ELSE <<"en", 50>>

\* the character-based fallback of detect_language
UnicodeFallback(t) ==
    IF InRange(t, 19968, 40959) THEN <<"zh", 80>>
    ELSE IF InRange(t, 12352, 12447) \/ InRange(t, 12448, 12543) THEN <<"ja", 80>>
    ELSE IF InRange(t, 44032, 55215) THEN <<"ko", 80>>
    ELSE IF InRange(t, 1536, 1791) THEN <<"ar", 80>>
    ELSE IF InRange(t, 2304, 2431) THEN <<"hi", 80>>
    ELSE <<"en", 50>>

\* what langdetect's detect can do: return a code or raise LangDetectException
DetectorOutcomes == {"en", "fr", "ca", "raise"}

\* a length test on the text as given
TooShort_Untrimmed(t) == Len(t) < 3

\* if not text or len(text.strip()) < 3: the detector is not consulted
TooShort(t) == t = <<>> \/ Len(Strip(t)) < 3

\* a detect_language that passes on whatever code the detector gives
detect_language_Uncoerced(t, d) ==
    IF TooShort(t) THEN <<"en", 30>>
    ELSE IF d = "raise" THEN UnicodeFallback(t)
    ELSE <<d, IF Len(CleanText(t)) > 10 THEN 95 ELSE 70>>

\* AITranslator.detect_language, d being the outcome of langdetect's detect
detect_language(t, d) ==
    IF TooShort(t) THEN <<"en", 30>>
    ELSE IF d = "raise" THEN UnicodeFallback(t)
    ELSE IF d \notin supported_languages THEN <<"en", 50>>
    ELSE <<d, IF Len(CleanText(t)) > 10 THEN 95 ELSE 70>>

MaxTextLen == 10000

\* AITranslator.validate_input: the list of error messages
validate_input(t, source_lang, target_lang) ==
    LET e1 == IF t = <<>> \/ Strip(t) = <<>>
              THEN <<"Please enter some text to translate">> ELSE <<>>
        e2 == IF Len(t) > MaxTextLen
              THEN <<"Text is too long (maximum 10,000 characters)">> ELSE <<>>
        e3 == IF source_lang = target_lang /\ source_lang # "auto"
              THEN <<"Source and target languages cannot be the same">> ELSE <<>>
    IN  e1 \o e2 \o e3

----------------------------------------------------------------------------
(* AITranslator: the three backends *)

\* what one invocation of a backend can do: raise, or return a text (each
\* service has its own wording)
AIOutcomes == {RAISE, <<>>, T_Hola}
GoogleOutcomes == {RAISE, <<>>, T_Ciao}
MyMemoryOutcomes == {RAISE, <<>>, T_Bonjour}

\* translate_with_ai, o being the outcome of loading and running the model
translate_with_ai(t, o) ==
    IF Strip(t) = <<>> THEN <<NONE, NONE_STR>>
    ELSE IF o = RAISE THEN <<NONE, NONE_STR>>
    ELSE <<o, "AI Model (Marian)">>

max_retries == 3

\* the retry loop of translate_with_google: the first attempt that does not raise
RECURSIVE FirstReturn(_, _)
FirstReturn(outs, attempt) ==
    IF attempt > max_retries \/ attempt > Len(outs) THEN 0
    ELSE IF outs[attempt] # RAISE THEN attempt
    ELSE FirstReturn(outs, attempt + 1)

\* the runs of the retry loop: attempts raise until one returns or the
\* retries are used up
GoogleRuns ==
    {outs \in UNION {[1..n -> GoogleOutcomes] : n \in 1..max_retries} :
        /\ \A i \in 1..(Len(outs) - 1) : outs[i] = RAISE
        /\ Len(outs) < max_retries => outs[Len(outs)] # RAISE}

\* translate_with_google, outs being the outcome of each attempt and d that of
\* the detector when the source is 'auto'
translate_with_google(t, source_lang, target_lang, outs, d) ==
    LET src == IF source_lang = "auto" THEN detect_language(t, d)[1] ELSE source_lang
        n == FirstReturn(outs, 1)
    IN  IF n = 0 THEN <<NONE, NONE_STR, NONE_STR>>
        ELSE <<outs[n], src, "Google Translate">>

\* translate_with_mymemory: one attempt
translate_with_mymemory(t, source_lang, target_lang, o) ==
    IF o = RAISE THEN <<NONE, NONE_STR>> ELSE <<o, "MyMemory">>

CONF_AI == 95
CONF_GOOGLE == 90
CONF_MYMEMORY == 80

\* the result dict smart_translate builds for a backend's answer
MakeResult(translation, source_lang, method, confidence) ==
    [translation |-> translation, source_lang |-> source_lang, method |-> method,
     confidence |-> confidence, cached |-> FALSE]

\* a cache hit returned as it was stored
MarkCached_Unmarked(r) == r

\* the dict smart_translate returns on a cache hit
MarkCached(r) == [r EXCEPT !.cached = TRUE]

----------------------------------------------------------------------------
(* OfflineTranslator: configuration and result dicts *)

offline_pairs ==
    {<<"en", t>> : t \in {"es", "fr", "de", "it", "pt", "ru", "zh", "ja", "ko",
                          "ar", "hi", "nl", "sv", "da", "no", "fi", "pl", "tr"}}
    \cup
    {<<s, "en">> : s \in {"es", "fr", "de", "it", "pt", "ru", "zh", "ja", "ko",
                          "ar", "hi", "nl", "sv", "da", "no", "fi", "pl", "tr"}}
    \cup
    {<<"es", "fr">>, <<"fr", "es">>, <<"es", "it">>, <<"it", "es">>,
     <<"fr", "de">>, <<"de", "fr">>}

is_offline_available(source_lang, target_lang) == <<source_lang, target_lang>> \in offline_pairs

CONF_OFFLINE_AI == 92
CONF_PIVOT == 85
CONF_FALLBACK == 10

\* an AITranslator, as the web and task frontends construct it
AIConfig ==
    [cls |-> "AITranslator", offline_mode |-> FALSE, use_ai_models |-> TRUE,
     use_google_translate |-> TRUE, use_mymemory |-> TRUE]

\* an OfflineTranslator, configured by its argument and the environment: the
\* defaults in either mode, and USE_AI_MODELS, USE_GOOGLE_TRANSLATE or
\* USE_MYMEMORY switched off where the switch changes the path taken
OfflineConfigs ==
    {cfg \in [cls : {"OfflineTranslator"}, offline_mode : BOOLEAN, use_ai_models : BOOLEAN,
              use_google_translate : BOOLEAN, use_mymemory : BOOLEAN] :
        \/ cfg.use_ai_models /\ cfg.use_google_translate /\ cfg.use_mymemory
        \/ cfg.offline_mode /\ ~cfg.use_ai_models /\ cfg.use_google_translate /\ cfg.use_mymemory
        \/ ~cfg.offline_mode /\ cfg.use_ai_models /\ ~cfg.use_google_translate /\ cfg.use_mymemory
        \/ ~cfg.offline_mode /\ cfg.use_ai_models /\ cfg.use_google_translate /\ ~cfg.use_mymemory}

\* the dict each dispatcher builds for the local model's answer
ResultAI(c, translation, method) ==
    IF c.cls = "AITranslator"
    THEN MakeResult(translation, c.source_lang, method, CONF_AI)
    ELSE MakeResult(translation, c.source_lang, method \o " (Offline)", CONF_OFFLINE_AI)
         @@ [offline |-> TRUE]

\* ... for Google's answer (the source language is the one the backend returns)
ResultGoogle(c, translation, detected_lang, method) ==
    IF c.cls = "AITranslator"
    THEN MakeResult(translation, detected_lang, method, CONF_GOOGLE)
    ELSE MakeResult(translation, detected_lang, method \o " (Online)", CONF_GOOGLE)
         @@ [offline |-> FALSE]

\* ... for MyMemory's answer, reporting the source as the caller passed it
ResultMyMemory_RequestSource(c, translation, method) ==
    MakeResult(translation, c.source, method, CONF_MYMEMORY)

\* ... for MyMemory's answer
ResultMyMemory(c, translation, method) ==
    IF c.cls = "AITranslator"
    THEN MakeResult(translation, c.source_lang, method, CONF_MYMEMORY)
    ELSE MakeResult(translation, c.source_lang, method \o " (Online)", CONF_MYMEMORY)
         @@ [offline |-> FALSE]

\* a pivot result with the confidence of a direct local translation
ResultPivot_DirectConfidence(c, translation) ==
    MakeResult(translation, c.source_lang, "AI Model via English Pivot (Offline)", CONF_OFFLINE_AI)
    @@ [offline |-> TRUE, pivot |-> TRUE]

\* ... by _translate_via_english_pivot
ResultPivot(c, translation) ==
    MakeResult(translation, c.source_lang, "AI Model via English Pivot (Offline)", CONF_PIVOT)
    @@ [offline |-> TRUE, pivot |-> TRUE]

\* a fallback that passes for a translation: no error field
ResultFallback_NoError(c) ==
    MakeResult(c.text, c.source_lang, "Offline Fallback", CONF_FALLBACK) @@ [offline |-> TRUE]

\* ... when the offline mode has no model: the input text, unchanged
ResultFallback(c) ==
    MakeResult(c.text, c.source_lang, "Offline Fallback", CONF_FALLBACK)
    @@ [offline |-> TRUE, error |-> <<"No offline model available for", c.source_lang, c.target>>]

----------------------------------------------------------------------------
(* Control flow of smart_translate between its external calls *)

\* an offline-forced dispatcher that goes online when it has no local model
AfterAI_OnlineWhenOffline(c) ==
    IF c.cls = "AITranslator" THEN "google"
    ELSE IF c.offline_mode /\ c.source_lang # "en" /\ c.target # "en"
            /\ is_offline_available(c.source_lang, "en")
         THEN "pivot1"
    ELSE IF c.use_google_translate THEN "google"
    ELSE IF c.use_mymemory THEN "mymemory"
    ELSE "fail"

\* a dispatcher that turns to MyMemory before Google
AfterAI_MyMemoryFirst(c) == IF c.use_mymemory THEN "mymemory" ELSE "fail"

\* where the dispatcher goes when the local model gave nothing or was skipped
AfterAI(c) ==
    IF c.cls = "AITranslator" THEN "google"
    ELSE IF c.offline_mode
         THEN IF c.source_lang # "en" /\ c.target # "en"
                 /\ is_offline_available(c.source_lang, "en")
              THEN "pivot1" ELSE "fallback"
    ELSE IF c.use_google_translate THEN "google"
    ELSE IF c.use_mymemory THEN "mymemory"
    ELSE "fail"

\* ... when Google gave nothing
AfterGoogle(c) ==
    IF c.cls = "AITranslator" THEN "mymemory"
    ELSE IF c.use_mymemory THEN "mymemory"
    ELSE "fail"

\* ... when the cache missed
AfterProbe(c) ==
    IF c.cls = "AITranslator" THEN "ai"
    ELSE IF c.use_ai_models /\ is_offline_available(c.source_lang, c.target) THEN "ai"
    ELSE AfterAI(c)

\* ... when the first pivot step returned English text
AfterPivot1(c) == IF is_offline_available("en", c.target) THEN "pivot2" ELSE "fallback"

----------------------------------------------------------------------------
(* Records kept of what the operations did *)

Idle == [pc |-> "idle"]
NoSummary == [kind |-> "none"]

\* the tier operations that raised / that wrote, in a method's trace
Raises(trace) == {i \in 1..Len(trace) : ~trace[i].ok}
Writes(trace) ==
    {i \in 1..Len(trace) : trace[i].ok /\ trace[i].site \in {"redis.setex", "disk.set", "redis.promote"}}

\* what one call of a ModelCache method did: w is the value of the method's
\* operator, evaluated in the state before the call
CacheOp(op, key, arg, ttl, w) ==
    [op |-> op, key |-> key, arg |-> arg, ttl |-> ttl,
     ret |-> w.ret, trace |-> w.trace, raised |-> w.raised,
     redisChanged |-> w.redis # redis, diskChanged |-> w.disk # disk]

\* an exception that left smart_translate
Raised == [tag |-> "Raised"]

\* the cache key of the call, as both ModelCache methods derive it
Key(c) == c.key

\* when the entry a probe of the key would be served from expires (0: no entry)
ServeExp(r, d, key) ==
    IF redis_client /\ key \in DOMAIN r /\ now < r[key].exp THEN r[key].exp
    ELSE IF key \in DOMAIN d /\ now < d[key].exp THEN d[key].exp
    ELSE 0

\* the completed call: c is the call's record, via what answered, r and d the
\* tiers the call leaves
Summary(c, via, result, r, d) ==
    [kind |-> "smart_translate", cls |-> c.cls, offline_mode |-> c.offline_mode,
     text |-> c.text, source |-> c.source, target |-> c.target,
     source_lang |-> c.source_lang, detected |-> c.detected,
     attempts |-> c.attempts, via |-> via, result |-> result,
     probeFault |-> c.probeFault, writeFault |-> c.writeFault,
     tierWrites |-> c.tierWrites, key |-> Key(c),
     entryExp |-> ServeExp(r, d, Key(c))]

Rejected(frontend, source, target, errors) ==
    [kind |-> "rejected", frontend |-> frontend, source |-> source, target |-> target,
     errors |-> errors]

\* the call returns (or raises), leaving the tiers r and d
Finish(c, via, result, r, d) ==
    /\ redis' = r
    /\ disk' = d
    /\ call' = Idle
    /\ last' = Summary(c, via, result, r, d)

\* the call moves on to its next external call, or returns when there is none
Goto(c, pc, r, d) ==
    IF pc = "fail" THEN Finish(c, "none", NoneVal, r, d)
    ELSE IF pc = "fallback" THEN Finish(c, "fallback", ResultFallback(c), r, d)
    ELSE /\ redis' = r
         /\ disk' = d
         /\ call' = [c EXCEPT !.pc = pc]
         /\ UNCHANGED last

\* a backend gave nothing usable: no cache write, next backend
Continue(c, pc) == Goto(c, pc, redis, disk)

WriteFaults == {f \in Faults : ~f.rget /\ ~f.dget}
ReadFaults == {f \in Faults : ~f.dset}

\* a dispatcher that leaves an entry another call wrote in the meantime alone
Succeed_KeepExisting(c, via, result) ==
    IF Live(redis, Key(c)) \/ Live(disk, Key(c))
    THEN Finish(c, via, result, redis, disk)
    ELSE \E f \in WriteFaults :
            LET w == cache_translation(Key(c), result, DefaultTTL, f)
                c2 == [c EXCEPT !.writeFault = Raises(w.trace) # {},
                                !.tierWrites = @ + Cardinality(Writes(w.trace))]
            IN  Finish(c2, via, IF w.raised THEN Raised ELSE result, w.redis, w.disk)

\* a backend answered: the result is cached with the default TTL and returned
Succeed(c, via, result) ==
    \E f \in WriteFaults :
        LET w == cache_translation(Key(c), result, DefaultTTL, f)
            c2 == [c EXCEPT !.writeFault = Raises(w.trace) # {},
                            !.tierWrites = @ + Cardinality(Writes(w.trace))]
        IN  Finish(c2, via, IF w.raised THEN Raised ELSE result, w.redis, w.disk)

\* the backend was invoked and returned result
Attempt(c, backend, result) ==
    [c EXCEPT !.attempts = Append(@, [backend |-> backend, usable |-> Truthy(result)])]

\* a step of the English pivot: the local model was invoked on the input for
\* the pair (source_lang, target_lang) and returned result
AttemptPivot(c, result, source_lang, target_lang, input) ==
    [c EXCEPT !.attempts = Append(@, [backend |-> "ai", usable |-> Truthy(result),
                                      source_lang |-> source_lang, target_lang |-> target_lang,
                                      input |-> input, output |-> result])]

----------------------------------------------------------------------------
(* Requests *)

Texts == {T_Hello, T_Blank}
TaskTexts == {T_Hello}
Sources == {"auto", "en"}
Targets == {"en", "it"}

\* smart_translate up to its first external call: the source is resolved
Dispatch(cfg, text, source, target, d) ==
    /\ call' = cfg @@
               [pc |-> "probe", text |-> text, source |-> source, target |-> target,
                source_lang |-> IF source = "auto" THEN detect_language(text, d)[1] ELSE source,
                detected |-> IF source = "auto" THEN detect_language(text, d)[1] ELSE NONE_STR,
                key |-> TransKey(hashseed, text,
                                 IF source = "auto" THEN detect_language(text, d)[1] ELSE source,
                                 target),
                attempts |-> <<>>, english |-> NONE,
                probeFault |-> FALSE, writeFault |-> FALSE, tierWrites |-> 0]
    /\ UNCHANGED last

Reject(frontend, source, target, errors) ==
    /\ call' = Idle
    /\ last' = Rejected(frontend, source, target, errors)

CanStart == call.pc = "idle" /\ ops < MaxOps

\* the detector is consulted only for the source 'auto'
DetectorChoices(source) == IF source = "auto" THEN DetectorOutcomes ELSE {"en"}

\* api_server.translate_text: POST /api/translate
ApiTranslate ==
    /\ CanStart
    /\ translator.cls = "AITranslator"
    /\ ops' = ops + 1
    /\ \E text \in Texts, source \in Sources, target \in Targets :
        \E d \in DetectorChoices(source) :
            IF Strip(text) = <<>>
            THEN Reject("api_server", source, target, <<"Text cannot be empty">>)
            ELSE Dispatch(translator, text, source, target, d)
    /\ UNCHANGED <<aux, other, redis_client, redis, disk, now, hashseed, translator>>

\* app_streamlit: the Translate button
StreamlitTranslate ==
    /\ CanStart
    /\ translator.cls = "AITranslator"
    /\ ops' = ops + 1
    /\ \E text \in Texts, source \in Sources, target \in Targets :
        \E d \in DetectorChoices(source) :
            /\ Strip(text) # <<>>
            /\ LET errors == validate_input(Strip(text), source, target)
               IN  IF errors # <<>>
                   THEN Reject("app_streamlit", source, target, errors)
                   ELSE Dispatch(translator, Strip(text), source, target, d)
    /\ UNCHANGED <<aux, other, redis_client, redis, disk, now, hashseed, translator>>

\* tasks.translate_text: the Celery task
TaskTranslate ==
    /\ CanStart
    /\ translator.cls = "AITranslator"
    /\ ops' = ops + 1
    /\ \E text \in TaskTexts, source \in Sources, target \in Targets :
        \E d \in DetectorChoices(source) :
            Dispatch(translator, text, source, target, d)
    /\ UNCHANGED <<aux, other, redis_client, redis, disk, now, hashseed, translator>>

\* a caller of OfflineTranslator.smart_translate
OfflineTranslate ==
    /\ CanStart
    /\ translator.cls = "OfflineTranslator"
    /\ ops' = ops + 1
    /\ \E text \in TaskTexts, source \in Sources, target \in Targets :
        \E d \in DetectorChoices(source) :
            Dispatch(translator, text, source, target, d)
    /\ UNCHANGED <<aux, other, redis_client, redis, disk, now, hashseed, translator>>

----------------------------------------------------------------------------
(* smart_translate, one external call at a time *)

\* the cache probe
SmartTranslateProbe ==
    /\ call.pc = "probe"
    /\ \E f \in ReadFaults :
        LET w == get_cached_translation(Key(call), f)
            c == [call EXCEPT !.probeFault = Raises(w.trace) # {},
                              !.tierWrites = @ + Cardinality(Writes(w.trace))]
        IN  IF w.raised THEN Finish(c, "cache", Raised, w.redis, w.disk)
            ELSE IF w.ret # NoneVal THEN Finish(c, "cache", MarkCached(w.ret), w.redis, w.disk)
            ELSE Goto(c, AfterProbe(c), w.redis, w.disk)
    /\ UNCHANGED <<aux, other, redis_client, now, hashseed, translator, ops>>

\* the local model
SmartTranslateAI ==
    /\ call.pc = "ai"
    /\ \E o \in AIOutcomes :
        LET r == translate_with_ai(call.text, o)
            c == Attempt(call, "ai", r[1])
        IN  IF Usable(r[1]) THEN Succeed(c, "ai", ResultAI(c, r[1], r[2]))
            ELSE Continue(c, AfterAI(c))
    /\ UNCHANGED <<aux, other, redis_client, now, hashseed, translator, ops>>

\* a dispatcher that hands Google the source as the caller gave it
SourceArg_AsRequested(c) == c.source

\* the source language smart_translate hands its backends: the resolved one
SourceArg(c) == c.source_lang

\* Google, with its retries; the attempt notes whether the backend ran the
\* detector itself (it does when handed 'auto') and the source it used
SmartTranslateGoogle ==
    /\ call.pc = "google"
    /\ \E outs \in GoogleRuns :
        \E d \in DetectorChoices(SourceArg(call)) :
            LET r == translate_with_google(call.text, SourceArg(call), call.target, outs, d)
                a == Attempt(call, "google", r[1])
                c == [a EXCEPT !.attempts[Len(a.attempts)] =
                                    @ @@ [redetected |-> SourceArg(call) = "auto",
                                          given |-> SourceArg(call)]]
            IN  IF Usable(r[1]) THEN Succeed(c, "google", ResultGoogle(c, r[1], r[2], r[3]))
                ELSE Continue(c, AfterGoogle(c))
    /\ UNCHANGED <<aux, other, redis_client, now, hashseed, translator, ops>>

\* MyMemory
SmartTranslateMyMemory ==
    /\ call.pc = "mymemory"
    /\ \E o \in MyMemoryOutcomes :
        LET r == translate_with_mymemory(call.text, call.source_lang, call.target, o)
            c == Attempt(call, "mymemory", r[1])
        IN  IF Usable(r[1]) THEN Succeed(c, "mymemory", ResultMyMemory(c, r[1], r[2]))
            ELSE Continue(c, "fail")
    /\ UNCHANGED <<aux, other, redis_client, now, hashseed, translator, ops>>

\* _translate_via_english_pivot, step 1: source to English
PivotToEnglish ==
    /\ call.pc = "pivot1"
    /\ \E o \in AIOutcomes :
        LET r == translate_with_ai(call.text, o)
            c == [AttemptPivot(call, r[1], call.source_lang, "en", call.text)
                    EXCEPT !.english = r[1]]
        IN  IF Usable(r[1]) THEN Continue(c, AfterPivot1(c))
            ELSE Continue(c, "fallback")
    /\ UNCHANGED <<aux, other, redis_client, now, hashseed, translator, ops>>

\* _translate_via_english_pivot, step 2: English to target
PivotFromEnglish ==
    /\ call.pc = "pivot2"
    /\ \E o \in AIOutcomes :
        LET r == translate_with_ai(call.english, o)
            c == AttemptPivot(call, r[1], "en", call.target, call.english)
        IN  IF Usable(r[1]) THEN Succeed(c, "pivot", ResultPivot(c, r[1]))
            ELSE Continue(c, "fallback")
    /\ UNCHANGED <<aux, other, redis_client, now, hashseed, translator, ops>>

----------------------------------------------------------------------------
(* The cache used directly, the clock, and the specifications *)

DirectTexts == {T_Hello, T_Hi}
DirectSources == {"en", "fr"}

\* a result dict as the callers of cache_translation pass it
DirectResults(source_lang) ==
    {MakeResult(tr, source_lang, "Test", CONF_AI) : tr \in {T_Hola, T_Bonjour}}

DirectSummary(kind, text, source_lang, target_lang, op) ==
    [kind |-> kind, text |-> text, source_lang |-> source_lang, target |-> target_lang,
     key |-> op.key, op |-> op, time |-> now]

\* a caller of ModelCache.cache_translation
CacheTranslation ==
    /\ CanStart
    /\ ops' = ops + 1
    /\ \E text \in DirectTexts, s \in DirectSources, t \in Targets, f \in WriteFaults :
        \E r \in DirectResults(s) :
            LET key == TransKey(hashseed, text, s, t)
                w == cache_translation(key, r, DefaultTTL, f)
            IN  /\ redis' = w.redis
                /\ disk' = w.disk
                /\ last' = DirectSummary("cache_translation", text, s, t,
                                         CacheOp("cache_translation", key, r, DefaultTTL, w))
    /\ UNCHANGED <<aux, other, redis_client, now, hashseed, translator, call>>

\* a caller of ModelCache.get_cached_translation
GetCachedTranslation ==
    /\ CanStart
    /\ ops' = ops + 1
    /\ \E text \in DirectTexts, s \in DirectSources, t \in Targets, f \in ReadFaults :
        LET key == TransKey(hashseed, text, s, t)
            w == get_cached_translation(key, f)
        IN  /\ redis' = w.redis
            /\ disk' = w.disk
            /\ last' = DirectSummary("get_cached_translation", text, s, t,
                                     CacheOp("get_cached_translation", key, NoneVal, 0, w))
    /\ UNCHANGED <<aux, other, redis_client, now, hashseed, translator, call>>

\* tasks.clear_cache
ClearCache ==
    /\ CanStart
    /\ ops' = ops + 1
    /\ \E f \in WriteFaults :
        LET w == clear_translations(f)
        IN  /\ redis' = w.redis
            /\ disk' = w.disk
    /\ last' = [kind |-> "clear_translations"]
    /\ UNCHANGED <<aux, other, redis_client, now, hashseed, translator, call>>

Unexpired(store, t) == [k \in {k \in DOMAIN store : t < store[k].exp} |-> store[k]]

\* time passes between two operations (the clock starts at the first one);
\* both tiers drop the entries whose time to live is over
Tick ==
    /\ call.pc = "idle"
    /\ 0 < ops /\ ops < MaxOps
    /\ now < MaxTicks * TickStep
    /\ now' = now + TickStep
    /\ redis' = Unexpired(redis, now + TickStep)
    /\ disk' = Unexpired(disk, now + TickStep)
    /\ UNCHANGED <<aux, other, redis_client, hashseed, translator, call, last, ops>>

----------------------------------------------------------------------------
(* Model handles: ModelCache.model_cache and AITranslator.load_ai_model *)

\* get_model's None
NoModel == <<>>

\* load_ai_model's (None, None)
NonePair == <<NONE, NONE>>

\* self.model_cache = {}
NoModels == [n \in {} |-> NoModel]

ModelNames == {"Helsinki-NLP/opus-mt-en-it", "Helsinki-NLP/opus-mt-en-es"}

\* the (tokenizer, model) pair a caller of set_model passes
DirectHandles == {<< <<"tokenizer", "test">>, <<"model", "test">> >>}

\* the pair from_pretrained builds for a model name
Pretrained(model_name) == << <<"MarianTokenizer", model_name>>, <<"MarianMTModel", model_name>> >>

\* ModelCache.get_model: dict.get
get_model(models, model_name) ==
    IF model_name \in DOMAIN models THEN models[model_name] ELSE NoModel

\* ModelCache.set_model
set_model(models, model_name, model_data) ==
    [n \in DOMAIN models \cup {model_name} |->
        IF n = model_name THEN model_data ELSE models[n]]

\* ModelCache.clear_models
clear_models(models) == NoModels

\* a loader that does not look into the map first
load_ai_model_AlwaysLoads(models, model_name, ok) ==
    IF ok
    THEN [ret |-> Pretrained(model_name), loaded |-> TRUE,
          models |-> set_model(models, model_name, Pretrained(model_name))]
    ELSE [ret |-> NonePair, loaded |-> TRUE, models |-> models]

\* AITranslator.load_ai_model; ok is whether from_pretrained succeeds, loaded
\* whether from_pretrained was called
load_ai_model(models, model_name, ok) ==
    LET cached_model == get_model(models, model_name)
    IN  IF Truthy(cached_model)
        THEN [ret |-> cached_model, loaded |-> FALSE, models |-> models]
        ELSE IF ok
        THEN [ret |-> Pretrained(model_name), loaded |-> TRUE,
              models |-> set_model(models, model_name, Pretrained(model_name))]
        ELSE [ret |-> NonePair, loaded |-> TRUE, models |-> models]

----------------------------------------------------------------------------
(* Initial values of the shared cache, the rate limiter and the guest table *)

\* the threads that call SharedModelCache.get_cache
CacheThreads == {1, 2}

\* _instance = None, _cache = None (instance 0 stands for None; the ModelCache
\* objects are numbered as they are constructed); began is the number of resets
\* a thread's call in progress found at its start, returned the answers given
SharedInit ==
    [instance |-> FALSE, cache |-> 0, created |-> 0, resets |-> 0,
     pc |-> [t \in CacheThreads |-> "idle"],
     began |-> [t \in CacheThreads |-> 0],
     returned |-> {}]

\* the client addresses and the threads of the Flask server that handle requests
ClientIPs == {"10.0.0.1", "10.0.0.2"}
Handlers == {1, 2}

IdleHandler == [pc |-> "idle", ip |-> "", current_time |-> 0]

\* request_counts = {}; time is the server's clock
LimiterInit ==
    [request_counts |-> [ip \in {} |-> <<>>],
     time |-> 0,
     h |-> [t \in Handlers |-> IdleHandler]]

\* the guest_sessions table, empty: device_id is UNIQUE NOT NULL, so the rows
\* are a function of the device id
NoRows == [dev \in {} |-> [session_name |-> NONE, is_active |-> FALSE]]

Init ==
    /\ redis_client \in BOOLEAN
    /\ redis = Empty
    /\ disk = Empty
    /\ now = 0
    /\ hashseed \in Seeds
    /\ translator \in {AIConfig} \cup OfflineConfigs
    /\ call = Idle
    /\ other = Idle
    /\ last = NoSummary
    /\ ops = 0
    /\ model_cache = NoModels
    /\ shared = SharedInit
    /\ limiter = LimiterInit
    /\ guest_sessions = NoRows

\* the dispatchers behind their frontends, sharing one cache
Next ==
    \/ ApiTranslate
    \/ StreamlitTranslate
    \/ TaskTranslate
    \/ OfflineTranslate
    \/ SmartTranslateProbe
    \/ SmartTranslateAI
    \/ SmartTranslateGoogle
    \/ SmartTranslateMyMemory
    \/ PivotToEnglish
    \/ PivotFromEnglish
    \/ ClearCache
    \/ Tick

Spec == Init /\ [][Next]_vars

\* the cache under its direct callers
NextCache ==
    \/ CacheTranslation
    \/ GetCachedTranslation
    \/ ClearCache
    \/ Tick

\* ... in a process whose translator is the plain AITranslator
InitCache == Init /\ translator = AIConfig

SpecCache == InitCache /\ [][NextCache]_vars

----------------------------------------------------------------------------
(* One entry of the cache over a longer run: the same key is written and read
   again while the clock moves in steps finer than the time to live *)

CacheTickStep == DefaultTTL \div 3

HotText == T_Hello
HotSource == "en"
HotTarget == "it"

\* the result dicts written under the one key: the caller notes in the dict
\* when it handed the dict to the cache
HotResults(t) ==
    {MakeResult(tr, HotSource, "Test", CONF_AI) @@ [stored_at |-> t] : tr \in {T_Hola, T_Bonjour}}

CanStartHot == call.pc = "idle" /\ ops < MaxCacheOps

\* cache_translation(HotText, HotSource, HotTarget, result), default ttl
CacheTranslationHot ==
    /\ CanStartHot
    /\ ops' = ops + 1
    /\ \E f \in WriteFaults, r \in HotResults(now) :
        LET key == TransKey(hashseed, HotText, HotSource, HotTarget)
            w == cache_translation(key, r, DefaultTTL, f)
        IN  /\ redis' = w.redis
            /\ disk' = w.disk
            /\ last' = DirectSummary("cache_translation", HotText, HotSource, HotTarget,
                                     CacheOp("cache_translation", key, r, DefaultTTL, w))
    /\ UNCHANGED <<aux, other, redis_client, now, hashseed, translator, call>>

\* get_cached_translation(HotText, HotSource, HotTarget)
GetCachedTranslationHot ==
    /\ CanStartHot
    /\ ops' = ops + 1
    /\ \E f \in ReadFaults :
        LET key == TransKey(hashseed, HotText, HotSource, HotTarget)
            w == get_cached_translation(key, f)
        IN  /\ redis' = w.redis
            /\ disk' = w.disk
            /\ last' = DirectSummary("get_cached_translation", HotText, HotSource, HotTarget,
                                     CacheOp("get_cached_translation", key, NoneVal, 0, w))
    /\ UNCHANGED <<aux, other, redis_client, now, hashseed, translator, call>>

\* a third of the default time to live passes; both tiers drop what expired
TickHot ==
    /\ call.pc = "idle"
    /\ 0 < ops /\ ops < MaxCacheOps
    /\ now < MaxCacheTicks * CacheTickStep
    /\ now' = now + CacheTickStep
    /\ redis' = Unexpired(redis, now + CacheTickStep)
    /\ disk' = Unexpired(disk, now + CacheTickStep)
    /\ UNCHANGED <<aux, other, redis_client, hashseed, translator, call, last, ops>>

NextHot ==
    \/ CacheTranslationHot
    \/ GetCachedTranslationHot
    \/ TickHot

SpecHot == InitCache /\ [][NextHot]_vars

----------------------------------------------------------------------------
(* Celery workers: processes started on their own, sharing the cache tiers *)

\* the next task is taken by a worker process started independently of the
\* one that ran the previous task (workers forked from one parent share the
\* parent's seed and are the same process as far as the key goes)
OtherWorker ==
    /\ call.pc = "idle"
    /\ 0 < ops /\ ops < MaxOps
    /\ hashseed' \in ProcessSeeds \ {hashseed}
    /\ UNCHANGED <<aux, other, redis_client, redis, disk, now, translator, call, last, ops>>

NextWorkers ==
    \/ TaskTranslate
    \/ SmartTranslateProbe
    \/ SmartTranslateAI
    \/ SmartTranslateGoogle
    \/ SmartTranslateMyMemory
    \/ OtherWorker

SpecWorkers == InitCache /\ [][NextWorkers]_vars

----------------------------------------------------------------------------
(* Two requests in the thread pool of the FastAPI server *)

\* api_server_fastapi.translate_endpoint: smart_translate is handed to the
\* default executor, whose threads run side by side
TranslateEndpoint ==
    /\ CanStart
    /\ ops' = ops + 1
    /\ \E text \in TaskTexts, source \in Sources, target \in {HotTarget} :
        \E d \in DetectorChoices(source) :
            Dispatch(translator, text, source, target, d)
    /\ UNCHANGED <<aux, other, redis_client, redis, disk, now, hashseed, translator>>

\* the scheduler takes the running thread off and lets the other one run (or
\* leaves room for the event loop to submit the next request)
SwitchThread ==
    /\ call' = other
    /\ other' = call
    /\ call # other
    /\ UNCHANGED <<aux, redis_client, redis, disk, now, hashseed, translator, last, ops>>

\* the running call's next external call
ThreadStep ==
    \/ SmartTranslateProbe
    \/ SmartTranslateAI
    \/ SmartTranslateGoogle
    \/ SmartTranslateMyMemory

NextThreads ==
    \/ TranslateEndpoint
    \/ SmartTranslateProbe
    \/ SmartTranslateAI
    \/ SmartTranslateGoogle
    \/ SmartTranslateMyMemory
    \/ SwitchThread

SpecThreads == InitCache /\ [][NextThreads]_vars

----------------------------------------------------------------------------
(* The three backends called on their own: chunking, pauses and retries.
   Pauses are in tenths of a second. *)

max_length == 400
max_chunk_size_google == 4500
max_chunk_size_mymemory == 450
CHUNK_PAUSE_GOOGLE == 1
CHUNK_PAUSE_MYMEMORY == 2
RETRY_PAUSE == 10

\* a text of n characters in which neighbouring characters differ
Alphabet == <<"a", "b", "c", "d", "e", "f", "g">>
LongText(n) == [i \in 1..n |-> Alphabet[(i % 7) + 1]]

Min(a, b) == IF a < b THEN a ELSE b

\* chunks that lose what is left after the last full chunk
Chunks_DropRemainder(text, size) ==
    IF Len(text) > size
    THEN [i \in 1..(Len(text) \div size) |-> SubSeq(text, (i - 1) * size + 1, i * size)]
    ELSE <<text>>

\* [text[i:i+size] for i in range(0, len(text), size)] when len(text) > size,
\* the text itself otherwise
Chunks(text, size) ==
    IF Len(text) > size
    THEN [i \in 1..((Len(text) + size - 1) \div size) |->
             SubSeq(text, (i - 1) * size + 1, Min(i * size, Len(text)))]
    ELSE <<text>>

\* ' '.join(parts)
RECURSIVE Join(_)
Join(parts) ==
    IF parts = <<>> THEN <<>>
    ELSE IF Len(parts) = 1 THEN parts[1]
    ELSE parts[1] \o <<" ">> \o Join(Tail(parts))

\* what the invocations of one pass over the text can do, one per chunk (an
\* invocation after one that raises is never made: it is written as RAISE)
ChunkOutcomes(text, size, outcomes) ==
    {outs \in [1..Len(Chunks(text, size)) -> outcomes] :
        \A i, j \in DOMAIN outs : (i < j /\ outs[i] = RAISE) => outs[j] = RAISE}

\* ... and the attempts of a retry loop (an attempt after one that returns is
\* never made: it is written as raising at once)
AttemptOutcomes(text, size, outcomes) ==
    {outs \in [1..max_retries -> ChunkOutcomes(text, size, outcomes)] :
        \A a, b \in 1..max_retries :
            (a < b /\ (\A i \in DOMAIN outs[a] : outs[a][i] # RAISE)) => outs[b][1] = RAISE}

\* a pass that keeps what it translated before the invocation that raised
RunPass_KeepPartial(text, size, pause, outs) ==
    LET chunks == Chunks(text, size)
        bad == {i \in 1..Len(chunks) : outs[i] = RAISE}
        n == IF bad = {} THEN Len(chunks) ELSE CHOOSE i \in bad : \A j \in bad : i <= j
        done == IF bad = {} THEN n ELSE n - 1
        outputs == [i \in 1..done |-> outs[i]]
    IN  [invoked |-> SubSeq(chunks, 1, n),
         outputs |-> outputs,
         raised |-> bad # {},
         paused |-> IF Len(text) > size THEN done * pause ELSE 0,
         out |-> IF done = 0 THEN RAISE
                 ELSE IF Len(text) > size THEN Join(outputs) ELSE outputs[1]]

\* one pass of a backend over the text: the chunks are handed to the service
\* one after the other until one raises; pause is slept after each chunk of a
\* chunked text; out is what the pass evaluates to (RAISE when it raised)
RunPass(text, size, pause, outs) ==
    LET chunks == Chunks(text, size)
        bad == {i \in 1..Len(chunks) : outs[i] = RAISE}
        n == IF bad = {} THEN Len(chunks) ELSE CHOOSE i \in bad : \A j \in bad : i <= j
        done == IF bad = {} THEN n ELSE n - 1
        outputs == [i \in 1..done |-> outs[i]]
    IN  [invoked |-> SubSeq(chunks, 1, n),
         outputs |-> outputs,
         raised |-> bad # {},
         paused |-> IF Len(text) > size THEN done * pause ELSE 0,
         out |-> IF bad # {} THEN RAISE
                 ELSE IF Len(text) > size THEN Join(outputs) ELSE outputs[1]]

\* a retry loop that pauses after every failed attempt
RetryPause_Always(attempt) == RETRY_PAUSE

\* the pause after the failure of an attempt (attempts counted from 1):
\* if attempt < max_retries - 1 (counted from 0): time.sleep(1)
RetryPause(attempt) == IF attempt < max_retries THEN RETRY_PAUSE ELSE 0

\* the passes of translate_with_google's retry loop from the given attempt on,
\* outs[a] being what the invocations of attempt a would do
RECURSIVE GooglePasses(_, _, _)
GooglePasses(text, outs, attempt) ==
    LET p == RunPass(text, max_chunk_size_google, CHUNK_PAUSE_GOOGLE, outs[attempt])
        q == p @@ [pauseAfter |-> IF p.raised THEN RetryPause(attempt) ELSE 0]
    IN  IF ~p.raised \/ attempt >= max_retries THEN <<q>>
        ELSE <<q>> \o GooglePasses(text, outs, attempt + 1)

\* what each pass evaluated to
PassOuts(passes) == [i \in 1..Len(passes) |-> passes[i].out]

\* the record of one call of a backend
BackendCall(kind, text, size, passes, ret) ==
    [kind |-> kind, text |-> text, size |-> size, passes |-> passes, ret |-> ret]

\* the lengths of the texts handed to each backend: around its chunk size
AILengths == {max_length, max_length + 1, 2 * max_length + 1}
GoogleLengths == {max_chunk_size_google, max_chunk_size_google + 1}
MyMemoryLengths == {max_chunk_size_mymemory, max_chunk_size_mymemory + 1}

\* translate_with_ai(text, 'en', 'it'); loaded: load_ai_model gave a model
CallTranslateWithAI ==
    /\ CanStart
    /\ ops' = ops + 1
    /\ \E text \in {LongText(n) : n \in AILengths} \cup {T_Hello, T_Blank}, loaded \in BOOLEAN :
        \E outs \in ChunkOutcomes(text, max_length, AIOutcomes) :
            LET invoked == Strip(text) # <<>> /\ loaded
                p == RunPass(text, max_length, 0, outs)
                o == IF invoked THEN p.out ELSE RAISE
            IN  last' = BackendCall("translate_with_ai", text, max_length,
                                    IF invoked THEN <<p @@ [pauseAfter |-> 0]>> ELSE <<>>,
                                    translate_with_ai(text, o))
    /\ UNCHANGED <<aux, other, redis_client, redis, disk, now, hashseed, translator, call>>

\* translate_with_google(text, 'en', 'it')
CallTranslateWithGoogle ==
    /\ CanStart
    /\ ops' = ops + 1
    /\ \E text \in {LongText(n) : n \in GoogleLengths} \cup {T_Hello} :
        \E outs \in AttemptOutcomes(text, max_chunk_size_google, GoogleOutcomes) :
            LET passes == GooglePasses(text, outs, 1)
            IN  last' = BackendCall("translate_with_google", text, max_chunk_size_google,
                                    passes,
                                    translate_with_google(text, "en", "it", PassOuts(passes), "en"))
    /\ UNCHANGED <<aux, other, redis_client, redis, disk, now, hashseed, translator, call>>

\* translate_with_mymemory(text, 'en', 'it')
CallTranslateWithMyMemory ==
    /\ CanStart
    /\ ops' = ops + 1
    /\ \E text \in {LongText(n) : n \in MyMemoryLengths} \cup {T_Hello} :
        \E outs \in ChunkOutcomes(text, max_chunk_size_mymemory, MyMemoryOutcomes) :
            LET p == RunPass(text, max_chunk_size_mymemory, CHUNK_PAUSE_MYMEMORY, outs)
            IN  last' = BackendCall("translate_with_mymemory", text, max_chunk_size_mymemory,
                                    <<p @@ [pauseAfter |-> 0]>>,
                                    translate_with_mymemory(text, "en", "it", p.out))
    /\ UNCHANGED <<aux, other, redis_client, redis, disk, now, hashseed, translator, call>>

NextBackends ==
    \/ CallTranslateWithAI
    \/ CallTranslateWithGoogle
    \/ CallTranslateWithMyMemory

\* no cache is involved
InitBackends == InitCache /\ ~redis_client

SpecBackends == InitBackends /\ [][NextBackends]_vars

----------------------------------------------------------------------------
(* The model-handle map beside the translation tiers: the callers of
   set_model, get_model, clear_models, load_ai_model and clear_translations,
   with one translation entry written, read and cleared *)

ModelSummary(kind, model_name, arg, ret, loaded) ==
    [kind |-> kind, name |-> model_name, arg |-> arg, ret |-> ret, loaded |-> loaded]

\* a caller of ModelCache.set_model
SetModel ==
    /\ call.pc = "idle"
    /\ \E n \in ModelNames, h \in DirectHandles :
        /\ model_cache' = set_model(model_cache, n, h)
        /\ last' = ModelSummary("set_model", n, h, NoModel, FALSE)
    /\ UNCHANGED <<core, shared, limiter, guest_sessions>>

\* a caller of ModelCache.get_model
GetModel ==
    /\ call.pc = "idle"
    /\ \E n \in ModelNames :
        last' = ModelSummary("get_model", n, NoModel, get_model(model_cache, n), FALSE)
    /\ UNCHANGED <<core, aux>>

\* a caller of ModelCache.clear_models
ClearModels ==
    /\ call.pc = "idle"
    /\ model_cache' = clear_models(model_cache)
    /\ last' = [kind |-> "clear_models"]
    /\ UNCHANGED <<core, shared, limiter, guest_sessions>>

\* translate_with_ai's call of load_ai_model
LoadAIModel ==
    /\ call.pc = "idle"
    /\ \E n \in ModelNames, ok \in BOOLEAN :
        LET w == load_ai_model(model_cache, n, ok)
        IN  /\ model_cache' = w.models
            /\ last' = ModelSummary("load_ai_model", n, get_model(model_cache, n),
                                    w.ret, w.loaded)
    /\ UNCHANGED <<core, shared, limiter, guest_sessions>>

\* a caller of ModelCache.clear_translations; the summary notes which of the
\* two clear operations raised (and was swallowed) and whether there was an
\* entry to clear
ClearTranslationsHot ==
    /\ CanStartHot
    /\ ops' = ops + 1
    /\ \E f \in WriteFaults :
        LET w == clear_translations(f)
        IN  /\ redis' = w.redis
            /\ disk' = w.disk
            /\ last' = [kind |-> "clear_translations",
                        diskFailed |-> f.dset,
                        redisFailed |-> redis_client /\ f.rset,
                        hadEntries |-> redis # Empty \/ disk # Empty]
    /\ UNCHANGED <<aux, other, redis_client, now, hashseed, translator, call>>

NextModels ==
    \/ SetModel
    \/ GetModel
    \/ ClearModels
    \/ LoadAIModel
    \/ CacheTranslationHot
    \/ GetCachedTranslationHot
    \/ ClearTranslationsHot

SpecModels == InitCache /\ [][NextModels]_vars

----------------------------------------------------------------------------
(* SharedModelCache: the class attributes under threads that call get_cache,
   one bytecode-level step at a time (the class takes no lock) *)

MaxInstances == 3
MaxResets == 1

\* get_cache, 'if cls._cache is None'
GetCacheTest(t) ==
    /\ shared.pc[t] = "idle"
    /\ shared' = [shared EXCEPT !.pc[t] = IF shared.cache = 0 THEN "create" ELSE "return",
                                !.began[t] = shared.resets]
    /\ UNCHANGED last
    /\ UNCHANGED <<core, model_cache, limiter, guest_sessions>>

\* get_cache, 'cls._cache = ModelCache()'
GetCacheCreate(t) ==
    /\ shared.pc[t] = "create"
    /\ shared.created < MaxInstances
    /\ shared' = [shared EXCEPT !.pc[t] = "return",
                                !.created = @ + 1,
                                !.cache = shared.created + 1]
    /\ UNCHANGED last
    /\ UNCHANGED <<core, model_cache, limiter, guest_sessions>>

\* get_cache, 'return cls._cache'
GetCacheReturn(t) ==
    /\ shared.pc[t] = "return"
    /\ shared' = [shared EXCEPT !.pc[t] = "idle",
                                !.returned = @ \cup {[epoch |-> shared.began[t],
                                                      inst |-> shared.cache,
                                                      whole |-> shared.began[t] = shared.resets]}]
    /\ last' = [kind |-> "get_cache", thread |-> t, ret |-> shared.cache]
    /\ UNCHANGED <<core, model_cache, limiter, guest_sessions>>

\* SharedModelCache(): __new__
NewSharedModelCache ==
    /\ \A t \in CacheThreads : shared.pc[t] = "idle"
    /\ IF shared.instance THEN UNCHANGED shared
       ELSE /\ shared.created < MaxInstances
            /\ shared' = [shared EXCEPT !.instance = TRUE,
                                        !.created = @ + 1,
                                        !.cache = shared.created + 1]
    /\ last' = [kind |-> "SharedModelCache"]
    /\ UNCHANGED <<core, model_cache, limiter, guest_sessions>>

\* SharedModelCache.reset
ResetShared ==
    /\ shared.resets < MaxResets
    /\ shared' = [shared EXCEPT !.cache = 0, !.instance = FALSE, !.resets = @ + 1]
    /\ last' = [kind |-> "reset"]
    /\ UNCHANGED <<core, model_cache, limiter, guest_sessions>>

NextShared ==
    \/ \E t \in CacheThreads : GetCacheTest(t)
    \/ \E t \in CacheThreads : GetCacheCreate(t)
    \/ \E t \in CacheThreads : GetCacheReturn(t)
    \/ NewSharedModelCache
    \/ ResetShared

SpecShared == InitBackends /\ [][NextShared]_vars

----------------------------------------------------------------------------
(* api_server.check_rate_limit under the request threads of the Flask server
   (app.run serves each request in a thread of its own) *)

RATE_LIMIT == 100
RATE_WINDOW == 3600
MaxRateTicks == 1
MaxQuietRequests == 1

\* the address whose requests arrive without bound; the other one sends few
BusyIP == "10.0.0.1"

Recent(times, hour_ago) == SelectSeq(times, LAMBDA req_time : req_time > hour_ago)

CountsOf(ip) ==
    IF ip \in DOMAIN limiter.request_counts THEN limiter.request_counts[ip] ELSE <<>>

SetCounts(ip, times) ==
    [a \in DOMAIN limiter.request_counts \cup {ip} |->
        IF a = ip THEN times ELSE limiter.request_counts[a]]

RateSummary(ip, ret) == [kind |-> "check_rate_limit", ip |-> ip, ret |-> ret]

\* check_rate_limit up to the assignment of the pruned list: the clock is
\* read, the address gets its list, the requests older than an hour are dropped
RatePrune(t) ==
    /\ limiter.h[t].pc = "idle"
    /\ \E ip \in ClientIPs :
        /\ ip = BusyIP \/ Len(CountsOf(ip)) < MaxQuietRequests
        /\ limiter' = [limiter EXCEPT
                          !.request_counts =
                              SetCounts(ip, Recent(CountsOf(ip), limiter.time - RATE_WINDOW)),
                          !.h[t] = [pc |-> "check", ip |-> ip, current_time |-> limiter.time]]
    /\ UNCHANGED last
    /\ UNCHANGED <<core, model_cache, shared, guest_sessions>>

\* 'if len(request_counts[ip_address]) >= RATE_LIMIT: return False'
RateCheck(t) ==
    /\ limiter.h[t].pc = "check"
    /\ IF Len(CountsOf(limiter.h[t].ip)) >= RATE_LIMIT
       THEN /\ limiter' = [limiter EXCEPT !.h[t] = IdleHandler]
            /\ last' = RateSummary(limiter.h[t].ip, FALSE)
       ELSE /\ limiter' = [limiter EXCEPT !.h[t].pc = "append"]
            /\ UNCHANGED last
    /\ UNCHANGED <<core, model_cache, shared, guest_sessions>>

\* 'request_counts[ip_address].append(current_time); return True'
RateAppend(t) ==
    /\ limiter.h[t].pc = "append"
    /\ limiter' = [limiter EXCEPT
                      !.request_counts =
                          SetCounts(limiter.h[t].ip,
                                    Append(CountsOf(limiter.h[t].ip), limiter.h[t].current_time)),
                      !.h[t] = IdleHandler]
    /\ last' = RateSummary(limiter.h[t].ip, TRUE)
    /\ UNCHANGED <<core, model_cache, shared, guest_sessions>>

\* an hour passes
RateTick ==
    /\ limiter.time < MaxRateTicks * RATE_WINDOW
    /\ limiter' = [limiter EXCEPT !.time = @ + RATE_WINDOW]
    /\ UNCHANGED last
    /\ UNCHANGED <<core, model_cache, shared, guest_sessions>>

NextRate ==
    \/ \E t \in Handlers : RatePrune(t)
    \/ \E t \in Handlers : RateCheck(t)
    \/ \E t \in Handlers : RateAppend(t)
    \/ RateTick

SpecRate == InitBackends /\ [][NextRate]_vars

----------------------------------------------------------------------------
(* UserManager: guest sessions (the timestamps and row ids of the table are
   not modelled) *)

\* st.session_state.device_id of the browser sessions
Devices == {"device-a", "device-b"}

\* the session_name argument: None or a friendly name
SessionNames == {NONE, <<"Test Device">>}

\* f"Guest_{device_id[:8]}"
DefaultName(device_id) == <<"Guest_", device_id>>

ActiveGuest(rows, device_id) == device_id \in DOMAIN rows /\ rows[device_id].is_active

GuestResult(success, session_name) == [success |-> success, session_name |-> session_name]

\* UserManager.create_guest_session: an active row is welcomed back; otherwise
\* a row is inserted, which the UNIQUE constraint on device_id refuses when the
\* device has a row already (the IntegrityError is caught and reported)
create_guest_session(rows, device_id, session_name) ==
    LET name == IF Truthy(session_name) THEN session_name ELSE DefaultName(device_id)
    IN  IF ActiveGuest(rows, device_id)
        THEN [rows |-> rows, ret |-> GuestResult(TRUE, rows[device_id].session_name)]
        ELSE IF device_id \in DOMAIN rows
        THEN [rows |-> rows, ret |-> GuestResult(FALSE, NONE)]
        ELSE [rows |-> [dev \in DOMAIN rows \cup {device_id} |->
                            IF dev = device_id
                            THEN [session_name |-> name, is_active |-> TRUE]
                            ELSE rows[dev]],
              ret |-> GuestResult(TRUE, name)]

\* UserManager.verify_session(device_id=...)
verify_session(rows, device_id) ==
    IF ActiveGuest(rows, device_id)
    THEN GuestResult(TRUE, rows[device_id].session_name)
    ELSE GuestResult(FALSE, NONE)

\* UserManager.logout_user(device_id=...): UPDATE ... SET is_active = 0
logout_user(rows, device_id) ==
    [dev \in DOMAIN rows |->
        IF dev = device_id THEN [rows[dev] EXCEPT !.is_active = FALSE] ELSE rows[dev]]

GuestSummary(kind, device_id, ret) == [kind |-> kind, device_id |-> device_id, ret |-> ret]

CreateGuestSession ==
    /\ \E dev \in Devices, n \in SessionNames :
        LET w == create_guest_session(guest_sessions, dev, n)
        IN  /\ guest_sessions' = w.rows
            /\ last' = GuestSummary("create_guest_session", dev, w.ret)
    /\ UNCHANGED <<core, model_cache, shared, limiter>>

LogoutUser ==
    /\ \E dev \in Devices :
        /\ guest_sessions' = logout_user(guest_sessions, dev)
        /\ last' = GuestSummary("logout_user", dev, GuestResult(TRUE, NONE))
    /\ UNCHANGED <<core, model_cache, shared, limiter>>

VerifySession ==
    /\ \E dev \in Devices :
        last' = GuestSummary("verify_session", dev, verify_session(guest_sessions, dev))
    /\ UNCHANGED <<core, aux>>

NextGuests ==
    \/ CreateGuestSession
    \/ LogoutUser
    \/ VerifySession

SpecGuests == InitCache /\ [][NextGuests]_vars

----------------------------------------------------------------------------
(* detect_language called on its own *)

DetectTexts ==
    {<<>>, <<" ">>, <<"a">>, <<"a", "b">>, <<" ", "a", "b", " ">>,
     <<" ", " ", "a", " ", " ">>, <<"cjk", "cjk">>, <<" ", "hira", " ", " ">>,
     <<"a", "b", "c">>, <<"a", "!", "b", "?", "c">>, T_Hello, T_Hello \o <<"!", "!">>,
     <<"cjk", "cjk", "cjk">>, <<"hira", "hira", "hira">>, <<"kata", "kata", "kata">>,
     <<"hangul", "hangul", "hangul">>, <<"arabic", "arabic", "arabic">>,
     <<"deva", "deva", "deva">>,
     <<"hira", "cjk", "hira">>, <<"kata", "hangul", "cjk">>, <<"hangul", "kata", "a">>,
     <<"arabic", "hangul", "deva">>, <<"deva", "arabic", "a">>, <<"a", "b", "deva">>}

\* detect_language(text); the detector's outcome is recorded when it was called
CallDetectLanguage ==
    /\ CanStart
    /\ ops' = ops + 1
    /\ \E text \in DetectTexts, d \in DetectorOutcomes :
        last' = [kind |-> "detect_language", text |-> text,
                 called |-> ~TooShort(text),
                 detector |-> IF TooShort(text) THEN NONE_STR ELSE d,
                 ret |-> detect_language(text, d)]
    /\ UNCHANGED <<aux, other, redis_client, redis, disk, now, hashseed, translator, call>>

SpecDetect == InitBackends /\ [][CallDetectLanguage]_vars

TypeOK ==
    /\ redis_client \in BOOLEAN
    /\ now \in 0..(MaxTicks * TickStep) \cup 0..(MaxCacheTicks * CacheTickStep)
    /\ ops \in 0..MaxOps \cup 0..MaxCacheOps
    /\ call.pc \in {"idle", "probe", "ai", "google", "mymemory", "pivot1", "pivot2"}
    /\ other.pc \in {"idle", "probe", "ai", "google", "mymemory"}
    /\ DOMAIN model_cache \subseteq ModelNames
    /\ shared.cache \in 0..shared.created
    /\ \A t \in CacheThreads : shared.pc[t] \in {"idle", "create", "return"}
    /\ DOMAIN limiter.request_counts \subseteq ClientIPs
    /\ \A t \in Handlers : limiter.h[t].pc \in {"idle", "check", "append"}
    /\ DOMAIN guest_sessions \subseteq Devices

----------------------------------------------------------------------------
(* Properties of the dispatcher (under Spec) *)

\* the order in which AITranslator.smart_translate is said to try its backends
BackendOrder == <<"ai", "google", "mymemory">>

\* a completed call that returned a result dict
Returned(s) == s.kind = "smart_translate" /\ s.result # NoneVal /\ s.result # Raised

\* C1: AITranslator.smart_translate attempts its backends in the fixed order
\* local model, Google, MyMemory; a backend is attempted only if every earlier
\* one returned nothing usable (None or the empty text), and once a backend
\* returns a non-empty translation no later backend is invoked for that call.
C1_FixedOrder ==
    /\ (call.pc # "idle" /\ call.cls = "AITranslator") =>
          /\ Len(call.attempts) <= 3
          /\ \A i \in 1..Len(call.attempts) :
                /\ call.attempts[i].backend = BackendOrder[i]
                /\ ~call.attempts[i].usable
          /\ call.pc \in {"ai", "google", "mymemory"} =>
                /\ Len(call.attempts) < 3
                /\ call.pc = BackendOrder[Len(call.attempts) + 1]
    /\ (last.kind = "smart_translate" /\ last.cls = "AITranslator") =>
          /\ Len(last.attempts) <= 3
          /\ \A i \in 1..Len(last.attempts) :
                /\ last.attempts[i].backend = BackendOrder[i]
                /\ last.attempts[i].usable => i = Len(last.attempts)
          /\ last.via \in {"ai", "google", "mymemory"} =>
                /\ last.attempts # <<>>
                /\ last.attempts[Len(last.attempts)].backend = last.via
                /\ last.attempts[Len(last.attempts)].usable

\* the third backend answered after the first two gave nothing usable
C1_Witness ==
    /\ last.kind = "smart_translate" /\ last.cls = "AITranslator"
    /\ last.via = "mymemory"
    /\ Len(last.attempts) = 3
    /\ ~last.attempts[1].usable /\ ~last.attempts[2].usable /\ last.attempts[3].usable

\* C2: when all three backends fail for a call that missed the cache,
\* AITranslator.smart_translate returns None and writes nothing to either
\* tier; and no result it returns has the empty text as its translation.
C2_AllFail ==
    (last.kind = "smart_translate" /\ last.cls = "AITranslator") =>
        /\ (Len(last.attempts) = 3 /\ \A i \in 1..3 : ~last.attempts[i].usable) =>
              /\ last.result = NoneVal
              /\ last.tierWrites = 0
        /\ Returned(last) => Truthy(last.result.translation)

\* a call whose three backends all failed has returned
C2_Witness ==
    /\ last.kind = "smart_translate" /\ last.cls = "AITranslator"
    /\ Len(last.attempts) = 3
    /\ \A i \in 1..3 : ~last.attempts[i].usable
    /\ last.result = NoneVal

\* a smart_translate call returns (or raises): the step that completes it
CallReturns ==
    /\ call.pc # "idle" /\ call'.pc = "idle"
    /\ other' = other
    /\ last'.kind = "smart_translate"

\* the operation completed just before the call in progress was the same
\* request to AITranslator.smart_translate, and it returned a result
SameRequestBefore ==
    /\ call.cls = "AITranslator"
    /\ Returned(last)
    /\ last.text = call.text /\ last.source = call.source /\ last.target = call.target

SecondIsCachedCopy ==
    /\ last'.result # NoneVal /\ last'.result # Raised
    /\ last'.result.cached
    /\ last'.result.translation = last.result.translation

C4_ConfidenceByBackend ==
    (Returned(last) /\ ~last.result.cached) =>
        /\ last.via = "ai" =>
              /\ last.result.confidence = CONF_AI
              /\ last.result.method \in {"AI Model (Marian)", "AI Model (Marian) (Offline)"}
        /\ last.via = "google" =>
              /\ last.result.confidence = CONF_GOOGLE
              /\ last.result.method \in {"Google Translate", "Google Translate (Online)"}
        /\ last.via = "mymemory" =>
              /\ last.result.confidence = CONF_MYMEMORY
              /\ last.result.method \in {"MyMemory", "MyMemory (Online)"}

\* C5: the source_lang of a returned result is never 'auto': it is the
\* request's source when that is a language code and the detector's code when
\* the request's source is 'auto', whichever backend or the cache served it.
C5_SourceResolved ==
    Returned(last) =>
        /\ last.result.source_lang # "auto"
        /\ last.source # "auto" => last.result.source_lang = last.source
        /\ last.source = "auto" => last.result.source_lang = last.detected

\* a request with source 'auto', detected as French, served from the cache
C5_Witness ==
    /\ Returned(last)
    /\ last.source = "auto" /\ last.detected = "fr"
    /\ last.result.cached

\* C6 as stated: a request whose source equals its target (and is not 'auto')
\* is rejected by validate_input with a non-empty error list before dispatch,
\* so that none reaches the cache probe or the backends of
\* AITranslator.smart_translate; a request with source 'auto' passes
\* validation for any target.
C6_SameLanguageRejected ==
    /\ \A s \in Sources \ {"auto"} : validate_input(T_Hello, s, s) # <<>>
    /\ \A t \in Targets : validate_input(T_Hello, "auto", t) = <<>>
    /\ (call.pc # "idle" /\ call.cls = "AITranslator") =>
          ~(call.source = call.target /\ call.source # "auto")

\* C8: no failure of a cache tier is raised to the caller of smart_translate;
\* the call still returns the backend's result when the cache write fails, and
\* still runs the backend chain when the cache read fails.
C8_CacheFailuresContained ==
    /\ last.kind = "smart_translate" =>
          /\ last.result # Raised
          /\ last.writeFault =>
                /\ last.via \in {"ai", "google", "mymemory", "pivot"}
                /\ Returned(last)
                /\ ~last.result.cached
                /\ Truthy(last.result.translation)
          /\ (last.probeFault /\ last.via # "cache" /\ last.cls = "AITranslator") =>
                /\ last.attempts # <<>>
                /\ last.attempts[1].backend = "ai"
    /\ (call.pc # "idle" /\ call.probeFault) => call.pc # "probe"

\* a call whose cache read and cache write both failed, in every tier, and
\* which returned its backend's result
C8_Witness ==
    /\ Returned(last)
    /\ last.probeFault /\ last.writeFault
    /\ last.tierWrites = 0
    /\ last.via = "google"

----------------------------------------------------------------------------
(* Properties of the two-tier cache (under SpecCache) *)

\* every access to the fast tier in the trace failed (none, when no client)
FastDown(trace) ==
    \A i \in 1..Len(trace) :
        trace[i].site \in {"redis.setex", "redis.get", "redis.promote"} => ~trace[i].ok

\* no access to the persistent tier in the trace failed
DiskUp(trace) ==
    \A i \in 1..Len(trace) : trace[i].site \in {"disk.set", "disk.get"} => trace[i].ok

Sites(trace) == {trace[i].site : i \in 1..Len(trace)}

\* a direct call of get_cached_translation completes
GetStep == ops' = ops + 1 /\ last'.kind = "get_cached_translation"

\* ... right after a cache_translation of the same text and language pair
\* in which, as in the get, the fast tier was unavailable
GetAfterSetFastDown ==
    /\ GetStep
    /\ last.kind = "cache_translation"
    /\ last'.text = last.text /\ last'.source_lang = last.source_lang
    /\ last'.target = last.target
    /\ FastDown(last.op.trace) /\ FastDown(last'.op.trace)

ServedFromDisk ==
    /\ last'.op.ret # NoneVal
    /\ last'.op.ret.translation = last.op.arg.translation
    /\ Acc("disk.get", TRUE) \in {last'.op.trace[i] : i \in 1..Len(last'.op.trace)}

C9_ReadThrough ==
    [][GetStep =>
        LET k == last'.key
            op == last'.op
            tr == op.trace
            fastHit == redis_client /\ tr # <<>> /\ tr[1].ok /\ Live(redis, k)
            diskRead == \E i \in 1..Len(tr) : tr[i] = Acc("disk.get", TRUE)
            diskHit == ~fastHit /\ diskRead /\ Live(disk, k)
        IN  /\ ~op.raised
            /\ disk' = disk
            /\ redis_client => tr # <<>> /\ tr[1].site = "redis.get"
            /\ ~redis_client => Sites(tr) \subseteq {"disk.get"}
            /\ \A i \in 1..Len(tr) : tr[i].site = "disk.get" =>
                  /\ ~fastHit
                  /\ \A j \in 1..Len(tr) : tr[j].site = "redis.get" => j < i
            /\ fastHit => op.ret = JsonLoads(redis[k].val) /\ Len(tr) = 1 /\ redis' = redis
            /\ diskHit =>
                  /\ op.ret = disk[k].val
                  /\ redis_client <=> "redis.promote" \in Sites(tr)
                  /\ Acc("redis.promote", TRUE) \in {tr[i] : i \in 1..Len(tr)} =>
                        /\ k \in DOMAIN redis'
                        /\ JsonLoads(redis'[k].val) = op.ret
                        /\ \A j \in DOMAIN redis \ {k} : j \in DOMAIN redis' /\ redis'[j] = redis[j]
                  /\ Acc("redis.promote", TRUE) \notin {tr[i] : i \in 1..Len(tr)} =>
                        redis' = redis
            /\ (~fastHit /\ ~diskHit) =>
                  op.ret = NoneVal /\ redis' = redis /\ "redis.promote" \notin Sites(tr)
    ]_vars

\* a disk hit returned although its promotion to Redis failed
C9_Witness ==
    /\ last.kind = "get_cached_translation"
    /\ last.op.ret # NoneVal
    /\ Acc("redis.promote", FALSE) \in {last.op.trace[i] : i \in 1..Len(last.op.trace)}

\* what C10 says of the tiers beyond the number written: a successful Redis
\* write leaves the disk tier alone, and the disk tier is written only when
\* Redis is not connected or its write raised
WriteThroughOrder(op) ==
    /\ Acc("redis.setex", TRUE) \in {op.trace[i] : i \in 1..Len(op.trace)} =>
          /\ ~op.diskChanged
          /\ "disk.set" \notin Sites(op.trace)
    /\ "disk.set" \in Sites(op.trace) =>
          \/ ~redis_client
          \/ Acc("redis.setex", FALSE) \in {op.trace[i] : i \in 1..Len(op.trace)}
    /\ ~op.raised

\* C10 as stated: cache_translation writes to exactly one tier.
C10_OneTier_Original ==
    last.kind = "cache_translation" =>
        /\ Cardinality(Writes(last.op.trace)) = 1
        /\ WriteThroughOrder(last.op)

\* C10, amended: cache_translation writes to at most one tier, and to none
\* only when the disk write, reached because Redis was not connected or its
\* write raised, raises too; a successful Redis write leaves the disk tier
\* unchanged.
C10_OneTier ==
    last.kind = "cache_translation" =>
        /\ Cardinality(Writes(last.op.trace)) <= 1
        /\ Writes(last.op.trace) = {} =>
              /\ Acc("disk.set", FALSE) \in {last.op.trace[i] : i \in 1..Len(last.op.trace)}
              /\ ~last.op.redisChanged /\ ~last.op.diskChanged
        /\ ~(last.op.redisChanged /\ last.op.diskChanged)
        /\ WriteThroughOrder(last.op)

\* a cache_translation whose Redis write and disk write both raised
C10_Witness ==
    /\ last.kind = "cache_translation"
    /\ Len(last.op.trace) = 2
    /\ Writes(last.op.trace) = {}


----------------------------------------------------------------------------
(* Properties of one entry over a longer run (under SpecHot) *)

\* the step is a get_cached_translation of the key that returns a value
HotGetHits ==
    /\ ops' = ops + 1
    /\ last'.kind = "get_cached_translation"
    /\ ~last'.op.raised
    /\ last'.op.ret # NoneVal

\* C11: a get that hits returns the value of the most recent completed
\* cache_translation for the key, never an older value left in the other tier
\* (here: the get directly follows that cache_translation, time aside)
C11_FreshestAnswers ==
    [][(HotGetHits /\ last.kind = "cache_translation" /\ ~last.op.raised
        /\ last.key = last'.key)
       => last'.op.ret = last.op.arg]_vars

\* C12: a translation cached with the default time to live is never returned
\* by get_cached_translation more than that many seconds after the
\* cache_translation call that stored it
C12_NeverServedPastTTL ==
    (last.kind = "get_cached_translation" /\ ~last.op.raised /\ last.op.ret # NoneVal)
    => last.time <= last.op.ret.stored_at + DefaultTTL


----------------------------------------------------------------------------
(* Properties of the workers sharing the fast tier (under SpecWorkers) *)

\* C13: with the fast tier connected, a result one worker process cached under
\* (text, s, t) is a cache hit for the process that next calls smart_translate
\* with the same (text, s, t), both deriving the same cache key (no tier
\* operation raising, same detected source, entry not expired)
C13_SharedAcrossProcesses ==
    [][(/\ CallReturns
        /\ SameRequestBefore
        /\ redis_client
        /\ last.tierWrites > 0
        /\ ~last.probeFault /\ ~last.writeFault
        /\ ~last'.probeFault /\ ~last'.writeFault
        /\ call.source_lang = last.source_lang
        /\ now < last.entryExp)
       => (call.key = last.key /\ last'.via = "cache" /\ SecondIsCachedCopy)]_vars


----------------------------------------------------------------------------
(* Properties of two calls side by side (under SpecThreads) *)

BackendPcs == {"ai", "google", "mymemory"}

\* the suspended call asks for the same entry as the running one
SameEntry == other.pc # "idle" /\ call.pc # "idle" /\ other.key = call.key

\* the running call's step never depends on where the other call is
NeitherWaits == (call.pc # "idle") => ENABLED ThreadStep

\* the step completes a call that had missed the cache, next to another call
\* for the same entry that had missed it too or has written it meanwhile
ReturnsBesideTwin ==
    /\ CallReturns
    /\ call.pc \in BackendPcs
    /\ \/ SameEntry /\ other.pc \in BackendPcs
       \/ last.kind = "smart_translate" /\ last.key = call.key /\ last.tierWrites > 0

\* C14: there is no in-flight deduplication: of two smart_translate calls for
\* the same (text, source, target) that both missed the cache before either
\* wrote, each goes through the backends itself and, when a backend answers,
\* writes the cache itself (no copy of the other's result, no skipped write);
\* and no call's step waits for the other call.
C14_NoDeduplication ==
    /\ [][ReturnsBesideTwin =>
            /\ last'.via \in BackendPcs \cup {"none"}
            /\ last'.attempts # <<>>
            /\ Returned(last') =>
                  /\ ~last'.result.cached
                  /\ last'.tierWrites > 0 \/ last'.writeFault]_vars
    /\ []NeitherWaits

\* both calls missed the cache, the first has answered and written the entry,
\* the second is at its backend with the entry now in the fast tier
C14_Witness ==
    /\ ops = 2
    /\ call.pc \in BackendPcs /\ ~call.probeFault
    /\ last.kind = "smart_translate" /\ last.key = call.key
    /\ last.via \in BackendPcs /\ last.tierWrites > 0
    /\ redis_client /\ Live(redis, call.key)


----------------------------------------------------------------------------
(* Properties of the backends called on their own (under SpecBackends) *)

BackendKinds == {"translate_with_ai", "translate_with_google", "translate_with_mymemory"}

\* C15: translate_with_google makes at most 3 attempts, sleeps 1 second after
\* each failed attempt except the last, returns on the first attempt that does
\* not raise, and returns the no-result triple after the third failure;
\* translate_with_mymemory makes exactly one attempt and returns no-result on
\* any exception.
C15_RetryDiscipline ==
    /\ last.kind = "translate_with_google" =>
          LET ps == last.passes
              n == Len(ps)
          IN  /\ 1 <= n /\ n <= 3
              /\ \A i \in 1..n :
                    /\ i < n => ps[i].raised
                    /\ ps[i].raised => ps[i].pauseAfter = (IF i < 3 THEN 10 ELSE 0)
                    /\ ~ps[i].raised =>
                          /\ ps[i].pauseAfter = 0
                          /\ last.ret = <<ps[i].out, "en", "Google Translate">>
              /\ ps[n].raised => (n = 3 /\ last.ret = <<NONE, NONE_STR, NONE_STR>>)
    /\ last.kind = "translate_with_mymemory" =>
          /\ Len(last.passes) = 1
          /\ last.passes[1].raised => last.ret = <<NONE, NONE_STR>>
          /\ ~last.passes[1].raised => last.ret = <<last.passes[1].out, "MyMemory">>

\* Google answered at its third attempt, after two failures
C15_Witness ==
    /\ last.kind = "translate_with_google"
    /\ Len(last.passes) = 3
    /\ last.passes[1].raised /\ last.passes[2].raised /\ ~last.passes[3].raised
    /\ last.ret[1] = T_Ciao

----------------------------------------------------------------------------
(* Properties of detect_language (under SpecDetect) *)

\* the text has a character of the named script
HasChar(t, c) == \E i \in 1..Len(t) : t[i] = c

\* C17: for every input whose trimmed length is below 3 characters (the empty
\* string included) detect_language returns ("en", 0.3) without calling the
\* statistical detector.
C17_ShortTextDefault ==
    (last.kind = "detect_language" /\ Len(Strip(last.text)) < 3) =>
        /\ last.ret = <<"en", 30>>
        /\ ~last.called

\* a text of five characters, one of them not a space
C17_Witness ==
    /\ last.kind = "detect_language"
    /\ Len(last.text) = 5 /\ Len(Strip(last.text)) = 1
    /\ last.ret = <<"en", 30>>

----------------------------------------------------------------------------
(* Properties of the English pivot (under Spec) *)

\* the pair has no local model while both legs through English have one
PivotOnly(s, t) ==
    /\ <<s, t>> \notin offline_pairs
    /\ <<s, "en">> \in offline_pairs
    /\ <<"en", t>> \in offline_pairs

----------------------------------------------------------------------------
(* Properties of the dispatchers, continued (under Spec) *)

\* the attempts of the completed call that went to Google
GoogleAttempts(s) == {i \in 1..Len(s.attempts) : s.attempts[i].backend = "google"}

\* C26 as stated: when AITranslator.smart_translate is called with source
\* 'auto' and the chain reaches Google, detection is run a second time inside
\* that backend.
C26_Redetects_Original ==
    (last.kind = "smart_translate" /\ last.cls = "AITranslator" /\ last.source = "auto") =>
        \A i \in GoogleAttempts(last) : last.attempts[i].redetected

\* C26, amended: when smart_translate is called with source 'auto' and the
\* chain reaches Google, detection is not run a second time inside that
\* backend: Google is handed the source language resolved at dispatch entry,
\* the one used for the cache key, and a result it produces reports it.
C26_SourceFixedAtEntry ==
    (last.kind = "smart_translate" /\ last.source = "auto") =>
        \A i \in GoogleAttempts(last) :
            /\ ~last.attempts[i].redetected
            /\ last.attempts[i].given = last.source_lang
            /\ last.key = TransKey(hashseed, last.text, last.attempts[i].given, last.target)
            /\ (last.via = "google" /\ Returned(last)) =>
                  last.result.source_lang = last.source_lang

\* a call with source 'auto', detected as French, answered by Google
C26_Witness ==
    /\ last.kind = "smart_translate" /\ last.source = "auto"
    /\ last.source_lang = "fr"
    /\ last.via = "google" /\ Returned(last)


Networked == {"google", "mymemory"}

\* C27: in offline-forced mode OfflineTranslator.smart_translate never invokes
\* a networked backend (Google or MyMemory), whatever the language pair and
\* whether or not the local model or the pivot succeeds.
C27_OfflineStaysOffline ==
    /\ (call.pc # "idle" /\ call.cls = "OfflineTranslator" /\ call.offline_mode) =>
          /\ call.pc \notin Networked
          /\ \A i \in 1..Len(call.attempts) : call.attempts[i].backend \notin Networked
    /\ (last.kind = "smart_translate" /\ last.cls = "OfflineTranslator" /\ last.offline_mode) =>
          /\ last.via \notin Networked
          /\ \A i \in 1..Len(last.attempts) : last.attempts[i].backend \notin Networked

\* an offline-forced call for English to English (no model, no pivot) that
\* ended without a translation
C27_Witness ==
    /\ last.kind = "smart_translate" /\ last.cls = "OfflineTranslator" /\ last.offline_mode
    /\ last.source_lang = "en" /\ last.target = "en"
    /\ last.via = "fallback" /\ last.attempts = <<>>

\* the result is the offline fallback
IsFallback(r) == r # NoneVal /\ r # Raised /\ r.method = "Offline Fallback"

----------------------------------------------------------------------------
(* Properties of the backends called on their own, continued (under
   SpecBackends) *)

\* C29: no backend attempt returns a partial translation of chunked text: if
\* any chunk's translation raises, the chunks already translated in that
\* attempt are discarded; translate_with_google then restarts from the first
\* chunk on its next attempt, and translate_with_mymemory and
\* translate_with_ai return no-result.
C29_NoPartialResult ==
    last.kind \in BackendKinds =>
        LET ps == last.passes
            first == SubSeq(last.text, 1, Min(last.size, Len(last.text)))
            whole == {i \in 1..Len(ps) :
                        ~ps[i].raised /\ Len(ps[i].outputs) = Len(ps[i].invoked)
                        /\ Len(ps[i].invoked) * last.size >= Len(last.text)}
        IN  /\ last.ret[1] # NONE => \E i \in whole : last.ret[1] = ps[i].out
            /\ \A i \in 1..Len(ps) :
                  ps[i].raised =>
                      /\ ps[i].out = RAISE
                      /\ last.kind = "translate_with_google" =>
                            /\ i < 3 => (Len(ps) > i /\ ps[i + 1].invoked[1] = first)
                            /\ i = 3 => last.ret[1] = NONE
                      /\ last.kind # "translate_with_google" => last.ret[1] = NONE

\* Google's first attempt translated the first chunk and failed on the second;
\* the second attempt translated both
C29_Witness ==
    /\ last.kind = "translate_with_google"
    /\ Len(last.passes) = 2
    /\ last.passes[1].raised /\ last.passes[1].outputs = <<T_Ciao>>
    /\ Len(last.passes[2].invoked) = 2
    /\ last.ret[1] = T_Ciao \o <<" ">> \o T_Ciao


----------------------------------------------------------------------------
(* Properties of the cache used directly, continued (under SpecCache) *)

\* the lookup that follows the one write a cache has seen
GetAfterOnlySet ==
    /\ ops = 1 /\ last.kind = "cache_translation" /\ ~last.op.raised
    /\ GetStep /\ ~last'.op.raised

SameTriple(a, b) ==
    <<a.text, a.source_lang, a.target>> = <<b.text, b.source_lang, b.target>>

----------------------------------------------------------------------------
(* Properties of the model-handle map and of clear_translations (under
   SpecModels) *)

ModelStep(kinds) == last' # last /\ last'.kind \in kinds

\* C21: model handles live only in the in-process map: set_model and
\* load_ai_model never write to the fast tier or the persistent tier,
\* get_model returns the handle last set for that name (None if never set), an
\* entry is removed only by clear_models, and while an entry exists
\* load_ai_model returns it without reloading the model.
C21_HandlesInProcessOnly ==
    [][/\ ModelStep({"set_model", "load_ai_model"}) =>
            (redis' = redis /\ disk' = disk)
       /\ ModelStep({"set_model"}) =>
            get_model(model_cache', last'.name) = last'.arg
       /\ ModelStep({"get_model"}) =>
            /\ last'.ret = get_model(model_cache, last'.name)
            /\ last.kind = "set_model" /\ last.name = last'.name => last'.ret = last.arg
            /\ last.kind \in {"none", "clear_models"} => last'.ret = NoModel
       /\ \A n \in ModelNames :
            /\ get_model(model_cache', n) # get_model(model_cache, n) =>
                  \/ ModelStep({"clear_models"})
                  \/ ModelStep({"set_model", "load_ai_model"}) /\ last'.name = n
            /\ (n \in DOMAIN model_cache /\ n \notin DOMAIN model_cache') =>
                  ModelStep({"clear_models"})
       /\ (ModelStep({"load_ai_model"}) /\ last'.name \in DOMAIN model_cache) =>
            /\ last'.ret = model_cache[last'.name]
            /\ ~last'.loaded
            /\ model_cache' = model_cache]_vars

\* load_ai_model answered from the map with the pair an earlier call loaded
C21_Witness ==
    /\ last.kind = "load_ai_model"
    /\ ~last.loaded
    /\ last.ret = Pretrained(last.name)
    /\ model_cache[last.name] = last.ret

\* every lookup misses, whatever the tiers do during it
AllMiss ==
    \A text \in DirectTexts, s \in DirectSources, t \in Targets, f \in ReadFaults :
        get_cached_translation(TransKey(hashseed, text, s, t), f).ret = NoneVal

\* the step put nothing into a tier
NoNewEntries ==
    /\ \A k \in DOMAIN redis' : k \in DOMAIN redis /\ redis'[k] = redis[k]
    /\ \A k \in DOMAIN disk' : k \in DOMAIN disk /\ disk'[k] = disk[k]

ClearStep == ops' = ops + 1 /\ last'.kind = "clear_translations"

----------------------------------------------------------------------------
(* Properties of SharedModelCache (under SpecShared) *)

\* the answers of the get_cache calls that ran between two resets
WholeAnswers == {a \in shared.returned : a.whole}

\* C24: SharedModelCache.get_cache returns the same ModelCache instance on
\* every call between two resets, including calls made concurrently from
\* several threads before the first instance exists, and returns a different
\* instance after reset. (Stated for the runs in which the class itself is
\* never constructed.)
C24_OneInstanceBetweenResets ==
    ~shared.instance =>
        \A a, b \in WholeAnswers :
            /\ a.inst # 0
            /\ a.epoch = b.epoch => a.inst = b.inst
            /\ a.epoch # b.epoch => a.inst # b.inst


----------------------------------------------------------------------------
(* Properties of the rate limiter (under SpecRate) *)

\* the requests of an address that were accepted within the last hour
AcceptedLastHour(ip) == Len(Recent(CountsOf(ip), limiter.time - RATE_WINDOW))

\* C25: the API rate limiter accepts at most 100 requests per client IP in any
\* 3600-second window, also when requests from one IP are handled
\* concurrently: the accepted requests of an address that lie within the last
\* hour never number more than RATE_LIMIT.
C25_AtMostLimitPerWindow ==
    \A ip \in ClientIPs : AcceptedLastHour(ip) <= RATE_LIMIT


----------------------------------------------------------------------------
(* Properties of the guest sessions (under SpecGuests) *)

\* C30: for every device id, after any sequence of create_guest_session and
\* logout_user calls, create_guest_session succeeds and leaves exactly one
\* active guest session for that device which verify_session(device_id)
\* accepts; in particular a guest session can be created again after the
\* device's previous guest session was logged out.
C30_GuestSessionAlwaysCreatable ==
    [][last'.kind = "create_guest_session" =>
          /\ last'.ret.success
          /\ ActiveGuest(guest_sessions', last'.device_id)
          /\ verify_session(guest_sessions', last'.device_id).success]_vars

====
